---- MODULE Spec2Model ----
(***************************************************************************)
(* CodeSync session relay (server) : the participant registry              *)
(* userSocketMap, the socket.io room membership the handlers drive with    *)
(* socket.join / socket.leave, and one action per socket event handler.    *)
(* A handler runs to completion before the next event is dispatched        *)
(* (single-threaded event loop), so each handler is one atomic action.     *)
(*                                                                         *)
(* With it the EditorPage of one connection (client): its peerConnections  *)
(* map, the RTCPeerConnection objects it creates, and the listeners it     *)
(* registers on the socket. An async listener is one step up to its first  *)
(* await and one step per continuation. What the relay emits to that       *)
(* connection is delivered to the page in the step that emits it, and what *)
(* the page emits is handled by the relay in the step that emits it: the   *)
(* socket keeps the order of events in each direction, and the page's      *)
(* state depends on nothing else of the transport. The other connections   *)
(* send any event at any time.                                             *)
(***************************************************************************)
EXTENDS Integers, Sequences, FiniteSets, Bags, TLC

\* ---------------------------------------------------------------- universe
\* Connection (socket) ids.  A connection that disconnects and a connection
\* that opens afterwards are told apart only by their id, so a label is
\* reused for the next connection once the previous one has been cleaned up.
Conns == {"s1", "s2", "s3"}

\* Two of the connections, for the specifications that need no third.
Pair == {"s1", "s2"}

\* Room names clients put in JOIN_REQUEST and in the signaling payloads.
\* They are disjoint from the connection ids: the transport is taken to give
\* "send to connection" and "send to room minus sender", and a room that
\* bears a socket's id would blur the two.
RoomIds == {"r1", "r2"}

OneRoom == {"r1"}

\* Usernames clients put in JOIN_REQUEST.
Usernames == {"a", "b", "c"}

TwoNames == {"a", "b"}

\* Largest cursorPosition a client sends with TYPING_START.
MaxCursor == 1

\* USER_CONNECTION_STATUS
ONLINE == "online"
OFFLINE == "offline"

VARIABLES
    userSocketMap,  \* the registry: a sequence of User records, in push order
    joined,         \* socket.io adapter: joined[s] = rooms s entered with socket.join
    inbound,        \* the event the last handler was dispatched for
    out,            \* what that handler emitted: one entry per emit call, in order
    pcs,            \* EditorPage of connection Local: the bag of its RTCPeerConnection objects
    stream,         \* EditorPage: the stream state is set (getUserMedia resolved)
    iceListening,   \* EditorPage: a SIGNAL_ICE_CANDIDATE listener is registered
    pendingMedia,   \* EditorPage: getMediaStream calls awaiting getUserMedia
    dirty,          \* EditorPage: setPeerConnections called, effects not yet rerun
    rx,             \* EditorPage: the event the socket delivered to the page in
                    \* the last step, or the icon clicked in it, NoEvent if
                    \* neither happened
    videoEnabled,   \* EditorPage: enabled of stream.getVideoTracks()[0]
    audioEnabled,   \* EditorPage: enabled of stream.getAudioTracks()[0]
                    \* (both FALSE while the stream state is null)
    isVideoOn,      \* EditorPage: the isVideoOn state
    isMicOn         \* EditorPage: the isMicOn state

\* The relay's state and the page's state.
svars == <<userSocketMap, joined, inbound, out>>

\* The page's local media: the first tracks of the stream state and the flags
\* of the two icons.
mvars == <<videoEnabled, audioEnabled, isVideoOn, isMicOn>>

cvars == <<pcs, stream, iceListening, pendingMedia, dirty, rx,
           videoEnabled, audioEnabled, isVideoOn, isMicOn>>

vars == <<userSocketMap, joined, inbound, out,
          pcs, stream, iceListening, pendingMedia, dirty, rx,
          videoEnabled, audioEnabled, isVideoOn, isMicOn>>

\* ------------------------------------------------------------ transport
\* Every socket is a member of the room named by its own id; the others it
\* enters with socket.join.
SocketsIn(room, j) == {s \in Conns : s = room \/ room \in j[s]}

\* io.emit standing where the code has io.to(room).emit: every connection.
IoToEveryone(room, j) == Conns

\* io.to(room), evaluated on membership j: every socket in the room.
IoTo(room, j) == SocketsIn(room, j)

\* io.to(room) standing where the code has socket.broadcast.to(room).
BroadcastToWithSender(socket, room, j) == SocketsIn(room, j)

\* socket.broadcast.to(room), evaluated on membership j: every socket in the
\* room but the sender.
BroadcastTo(socket, room, j) == SocketsIn(room, j) \ {socket}

NoUser ==
    [username |-> "-", roomId |-> "-", status |-> "-", cursorPosition |-> 0,
     typing |-> FALSE, socketId |-> "-", currentFile |-> "null"]

\* One emit call: the event name, the sockets it is delivered to (once each),
\* and the payload fields the handlers use.
Emit(ev, to, user, users, socketId) ==
    [ev |-> ev, to |-> to, user |-> user, users |-> users, socketId |-> socketId]

Event(type, socket, roomId, username, socketId, cursorPosition) ==
    [type |-> type, socket |-> socket, roomId |-> roomId, username |-> username,
     socketId |-> socketId, cursorPosition |-> cursorPosition]

\* ------------------------------------------------------------- registry
getUsersInRoomOf(map, roomId) == SelectSeq(map, LAMBDA user : user.roomId = roomId)

getUsersInRoom(roomId) == getUsersInRoomOf(userSocketMap, roomId)

\* Array.prototype.find: the index of the first record of the socket, 0 if none.
FindIndex(map, socketId) ==
    IF \E i \in 1..Len(map) : map[i].socketId = socketId
    THEN CHOOSE i \in 1..Len(map) :
            /\ map[i].socketId = socketId
            /\ \A j \in 1..(i - 1) : map[j].socketId # socketId
    ELSE 0

NullRoom == "null"

getRoomIdOf(map, socketId) ==
    IF FindIndex(map, socketId) = 0 THEN NullRoom
    ELSE map[FindIndex(map, socketId)].roomId

getRoomId(socketId) == getRoomIdOf(userSocketMap, socketId)

getUserBySocketIdOf(map, socketId) ==
    IF FindIndex(map, socketId) = 0 THEN NoUser
    ELSE map[FindIndex(map, socketId)]

getUserBySocketId(socketId) == getUserBySocketIdOf(userSocketMap, socketId)

\* The connection whose EditorPage is modelled, and the connections it may
\* hold a peer connection for.
Local == "s1"

Peers == Conns \ {Local}

\* The room of the page's URL (useParams) and the username it joins with.
PageRoom == "r1"

NameOf(socket) == IF socket = "s1" THEN "a" ELSE IF socket = "s2" THEN "b" ELSE "c"

NoEvent == [ev |-> "none", socketId |-> "-", target |-> "-"]

\* The page after its first render: no peer connection, no stream, the first
\* getMediaStream call awaiting getUserMedia, no listener of that effect yet.
PageInit ==
    /\ pcs = EmptyBag
    /\ stream = FALSE
    /\ iceListening = FALSE
    /\ pendingMedia = 1
    /\ dirty = FALSE
    /\ rx = NoEvent
    /\ videoEnabled = FALSE
    /\ audioEnabled = FALSE
    /\ isVideoOn = TRUE
    /\ isMicOn = TRUE

Init ==
    /\ userSocketMap = <<>>
    /\ joined = [s \in Conns |-> {}]
    /\ inbound = Event("none", "-", "-", "-", "-", 0)
    /\ out = <<>>
    /\ PageInit

\* ------------------------------------------------------------- handlers
\* The username check of JOIN_REQUEST restricted to ONLINE participants.
isUsernameExistOnlineOnly(roomId, username) ==
    \E i \in 1..Len(getUsersInRoom(roomId)) :
        /\ getUsersInRoom(roomId)[i].username = username
        /\ getUsersInRoom(roomId)[i].status = ONLINE

isUsernameExist(roomId, username) ==
    \E i \in 1..Len(getUsersInRoom(roomId)) :
        getUsersInRoom(roomId)[i].username = username

\* A new record that keeps the OFFLINE status.
newUserOffline(socket, roomId, username) ==
    [username |-> username, roomId |-> roomId, status |-> OFFLINE,
     cursorPosition |-> 0, typing |-> FALSE, socketId |-> socket,
     currentFile |-> "null"]

newUser(socket, roomId, username) ==
    [username |-> username, roomId |-> roomId, status |-> ONLINE,
     cursorPosition |-> 0, typing |-> FALSE, socketId |-> socket,
     currentFile |-> "null"]

\* The roster read before newUser is pushed.
usersBeforePush(socket, roomId, username) == getUsersInRoom(roomId)

\* const users = getUsersInRoom(roomId), read after userSocketMap.push(newUser).
users(socket, roomId, username) ==
    getUsersInRoomOf(Append(userSocketMap, newUser(socket, roomId, username)), roomId)

JoinRequest(socket, roomId, username) ==
    /\ inbound' = Event("JOIN_REQUEST", socket, roomId, username, "-", 0)
    /\ IF isUsernameExist(roomId, username)
       THEN /\ out' = <<Emit("USERNAME_EXISTS", IoTo(socket, joined), NoUser, <<>>, "-")>>
            /\ UNCHANGED <<userSocketMap, joined>>
       ELSE /\ userSocketMap' = Append(userSocketMap, newUser(socket, roomId, username))
            /\ joined' = [joined EXCEPT ![socket] = @ \cup {roomId}]
            /\ out' = <<Emit("USER_JOINED", BroadcastTo(socket, roomId, joined'),
                             newUser(socket, roomId, username), <<>>, "-"),
                        Emit("JOIN_ACCEPTED", IoTo(socket, joined'),
                             newUser(socket, roomId, username),
                             users(socket, roomId, username), "-")>>

\* The disconnecting handler removing only the record getUserBySocketId found.
DisconnectingFirstRecord(socket) ==
    /\ inbound' = Event("disconnecting", socket, "-", "-", "-", 0)
    /\ joined' = [joined EXCEPT ![socket] = {}]
    /\ IF FindIndex(userSocketMap, socket) = 0
       THEN /\ out' = <<>>
            /\ UNCHANGED userSocketMap
       ELSE /\ out' = <<Emit("USER_DISCONNECTED",
                             BroadcastTo(socket, getUserBySocketId(socket).roomId, joined),
                             getUserBySocketId(socket), <<>>, "-")>>
            /\ userSocketMap' =
                  [i \in 1..(Len(userSocketMap) - 1) |->
                      IF i < FindIndex(userSocketMap, socket)
                      THEN userSocketMap[i] ELSE userSocketMap[i + 1]]

\* The disconnecting handler, then the transport's own cleanup of the closed
\* socket (it leaves every room it was in).
Disconnecting(socket) ==
    /\ inbound' = Event("disconnecting", socket, "-", "-", "-", 0)
    /\ joined' = [joined EXCEPT ![socket] = {}]
    /\ IF FindIndex(userSocketMap, socket) = 0
       THEN /\ out' = <<>>
            /\ UNCHANGED userSocketMap
       ELSE /\ out' = <<Emit("USER_DISCONNECTED",
                             BroadcastTo(socket, getUserBySocketId(socket).roomId, joined),
                             getUserBySocketId(socket), <<>>, "-")>>
            /\ userSocketMap' = SelectSeq(userSocketMap, LAMBDA u : u.socketId # socket)

\* WebRTC signaling: relayed to the room named in the payload.
Relay(type, socket, roomId) ==
    /\ inbound' = Event(type, socket, roomId, "-", "-", 0)
    /\ out' = <<Emit(type, BroadcastTo(socket, roomId, joined), NoUser, <<>>, socket)>>
    /\ UNCHANGED <<userSocketMap, joined>>

SignalIceCandidate(socket, roomId) == Relay("SIGNAL_ICE_CANDIDATE", socket, roomId)

SignalOffer(socket, roomId) == Relay("SIGNAL_OFFER", socket, roomId)

SignalAnswer(socket, roomId) == Relay("SIGNAL_ANSWER", socket, roomId)

\* userSocketMap.map(...) setting the status of every record of socketId.
SetStatus(map, socketId, status) ==
    [i \in 1..Len(map) |->
        IF map[i].socketId = socketId THEN [map[i] EXCEPT !.status = status]
        ELSE map[i]]

\* The status handlers broadcasting to the sender's room, not the target's.
StatusChangeSenderRoom(type, status, socket, socketId) ==
    /\ inbound' = Event(type, socket, "-", "-", socketId, 0)
    /\ userSocketMap' = SetStatus(userSocketMap, socketId, status)
    /\ out' = IF getRoomIdOf(userSocketMap', socket) = NullRoom THEN <<>>
              ELSE <<Emit(type, BroadcastTo(socket, getRoomIdOf(userSocketMap', socket), joined),
                          NoUser, <<>>, socketId)>>
    /\ UNCHANGED joined

StatusChange(type, status, socket, socketId) ==
    /\ inbound' = Event(type, socket, "-", "-", socketId, 0)
    /\ userSocketMap' = SetStatus(userSocketMap, socketId, status)
    /\ out' = IF getRoomIdOf(userSocketMap', socketId) = NullRoom THEN <<>>
              ELSE <<Emit(type,
                          BroadcastTo(socket, getRoomIdOf(userSocketMap', socketId), joined),
                          NoUser, <<>>, socketId)>>
    /\ UNCHANGED joined

UserOffline(socket, socketId) == StatusChange("USER_OFFLINE", OFFLINE, socket, socketId)

UserOnline(socket, socketId) == StatusChange("USER_ONLINE", ONLINE, socket, socketId)

\* Handlers that look the sender's room up and pass the event on.
RoomRelay(type, ev, socket) ==
    /\ inbound' = Event(type, socket, "-", "-", "-", 0)
    /\ out' = IF getRoomId(socket) = NullRoom THEN <<>>
              ELSE <<Emit(ev, BroadcastTo(socket, getRoomId(socket), joined),
                          NoUser, <<>>, socket)>>
    /\ UNCHANGED <<userSocketMap, joined>>

SendMessage(socket) == RoomRelay("SEND_MESSAGE", "RECEIVE_MESSAGE", socket)

RequestDrawing(socket) == RoomRelay("REQUEST_DRAWING", "REQUEST_DRAWING", socket)

SetTyping(map, socketId, typing, cursorPosition) ==
    [i \in 1..Len(map) |->
        IF map[i].socketId = socketId
        THEN [map[i] EXCEPT !.typing = typing, !.cursorPosition = cursorPosition]
        ELSE map[i]]

KeepCursor(map, socketId, typing) ==
    [i \in 1..Len(map) |->
        IF map[i].socketId = socketId THEN [map[i] EXCEPT !.typing = typing]
        ELSE map[i]]

TypingEmit(type, socket) ==
    out' = IF FindIndex(userSocketMap', socket) = 0 THEN <<>>
           ELSE <<Emit(type,
                       BroadcastTo(socket, getUserBySocketIdOf(userSocketMap', socket).roomId,
                                   joined),
                       getUserBySocketIdOf(userSocketMap', socket), <<>>, "-")>>

TypingStart(socket, cursorPosition) ==
    /\ inbound' = Event("TYPING_START", socket, "-", "-", "-", cursorPosition)
    /\ userSocketMap' = SetTyping(userSocketMap, socket, TRUE, cursorPosition)
    /\ TypingEmit("TYPING_START", socket)
    /\ UNCHANGED joined

TypingPause(socket) ==
    /\ inbound' = Event("TYPING_PAUSE", socket, "-", "-", "-", 0)
    /\ userSocketMap' = KeepCursor(userSocketMap, socket, FALSE)
    /\ TypingEmit("TYPING_PAUSE", socket)
    /\ UNCHANGED joined

SyncDrawing(socket, socketId) ==
    /\ inbound' = Event("SYNC_DRAWING", socket, "-", "-", socketId, 0)
    /\ out' = <<Emit("SYNC_DRAWING", BroadcastTo(socket, socketId, joined),
                     NoUser, <<>>, "-")>>
    /\ UNCHANGED <<userSocketMap, joined>>

\* ----------------------------------------------------------- EditorPage
\* The page of connection Local (the HEAD side of the file's conflict markers,
\* which holds the peer-connection code). A RTCPeerConnection object is a
\* record: the key it was stored under, whether peerConnections still maps
\* that key to it, its signalingState and description types, the candidates
\* applied to it (each named by the connection its sender gathered it for),
\* and the await at which the listener that created it is suspended (the
\* tracks it carries are not part of the state). The browser
\* runs the operations of one RTCPeerConnection in the order they are called,
\* so an operation is given its effect at the call; the await that follows it
\* ends in a later step.

\* RTCPeerConnection objects the page may hold at once.
MaxPcs == 2

\* getUserMedia calls that may be pending at once.
MaxPending == 1

\* peerConnections.has(socketId) and peerConnections.get(socketId).
Has(socketId) == \E pc \in BagToSet(pcs) : pc.inMap /\ pc.socketId = socketId

Get(socketId) == CHOOSE pc \in BagToSet(pcs) : pc.inMap /\ pc.socketId = socketId

\* One object put into, or taken from, a bag of objects, and one replaced by
\* its next state.
Put(objs, pc) == objs (+) SetToBag({pc})

Take(objs, pc) == objs (-) SetToBag({pc})

Replace(objs, pc, next) == Put(Take(objs, pc), next)

\* The objects something still refers to: the map, or a suspended listener.
Live(objs) ==
    [pc \in {x \in BagToSet(objs) : x.inMap \/ x.at \notin {"done", "rejected"}} |-> objs[pc]]

\* new RTCPeerConnection().
NewPc(socketId, handler, at) ==
    [socketId |-> socketId, inMap |-> TRUE, signalingState |-> "stable",
     remote |-> "none", local |-> "none", cands |-> {},
     handler |-> handler, at |-> at]

\* peerConnections.set(socketId, pc): any object under the key is replaced.
createPeerConnection(pc) ==
    Put(IF Has(pc.socketId)
        THEN Replace(pcs, Get(pc.socketId), [Get(pc.socketId) EXCEPT !.inMap = FALSE])
        ELSE pcs,
        pc)

\* setRemoteDescription taking a description in any signalingState.
AnySignalingState(pc, type) == TRUE

\* RTCPeerConnection: the signalingState in which a remote description of the
\* type is accepted; in any other the call rejects and changes nothing.
CanSetRemoteDescription(pc, type) ==
    \/ type = "offer" /\ pc.signalingState \in {"stable", "have-remote-offer"}
    \/ type = "answer" /\ pc.signalingState = "have-local-offer"

setRemoteDescription(pc, type) ==
    [pc EXCEPT !.remote = type,
               !.signalingState = IF type = "offer" THEN "have-remote-offer" ELSE "stable"]

CanSetLocalDescription(pc, type) ==
    \/ type = "offer" /\ pc.signalingState \in {"stable", "have-local-offer"}
    \/ type = "answer" /\ pc.signalingState = "have-remote-offer"

setLocalDescription(pc, type) ==
    [pc EXCEPT !.local = type,
               !.signalingState = IF type = "offer" THEN "have-local-offer" ELSE "stable"]

CanCreateAnswer(pc) == pc.signalingState = "have-remote-offer"

\* addIceCandidate rejects while the object has no remote description.
CanAddIceCandidate(pc) == pc.remote # "none"

addIceCandidate(pc, candidate) == [pc EXCEPT !.cands = @ \cup {candidate}]

\* socket.on(JOIN_REQUEST): a new object, then await pc.createOffer().
OnJoinRequest(socketId) ==
    /\ pcs' = Live(createPeerConnection(NewPc(socketId, "JOIN_REQUEST", "createOffer")))
    /\ dirty' = TRUE

\* socket.on(SIGNAL_OFFER): a new object, then await pc.setRemoteDescription(offer),
\* which takes the offer or rejects it.
OnSignalOffer(socketId) ==
    /\ \E ok \in BOOLEAN :
          pcs' = Live(createPeerConnection(
                    IF ok THEN setRemoteDescription(
                                  NewPc(socketId, "SIGNAL_OFFER", "setRemoteDescription"),
                                  "offer")
                    ELSE NewPc(socketId, "SIGNAL_OFFER", "rejected")))
    /\ dirty' = TRUE

\* socket.on(SIGNAL_ANSWER): setRemoteDescription(answer) on the object of the
\* key if there is one; nothing follows the await.
OnSignalAnswer(socketId) ==
    /\ pcs' = IF Has(socketId) /\ CanSetRemoteDescription(Get(socketId), "answer")
              THEN Replace(pcs, Get(socketId), setRemoteDescription(Get(socketId), "answer"))
              ELSE pcs
    /\ UNCHANGED dirty

\* socket.on(SIGNAL_ICE_CANDIDATE), registered once getUserMedia has resolved:
\* addIceCandidate on the object of the key if there is one. A listener
\* registered by an earlier render reads that render's Map; it is taken to
\* find the same objects as the latest one.
OnSignalIceCandidate(socketId, candidate) ==
    /\ pcs' = IF /\ iceListening
                 /\ Has(socketId)
                 /\ CanAddIceCandidate(Get(socketId))
              THEN Replace(pcs, Get(socketId), addIceCandidate(Get(socketId), candidate))
              ELSE pcs
    /\ UNCHANGED dirty

\* socket.on(ADD_STREAM) and socket.on(REMOVE_STREAM): tracks are added to, or
\* every sender is removed from, the object of the key; the object stays in
\* peerConnections with its descriptions and candidates.
OnStream(socketId) == UNCHANGED <<pcs, dirty>>

\* The listeners the page has registered on the socket; any other event has
\* no listener in the page.
Dispatch(ev, socketId, candidate) ==
    CASE ev = "JOIN_REQUEST" -> OnJoinRequest(socketId)
      [] ev = "SIGNAL_OFFER" -> OnSignalOffer(socketId)
      [] ev = "SIGNAL_ANSWER" -> OnSignalAnswer(socketId)
      [] ev = "SIGNAL_ICE_CANDIDATE" -> OnSignalIceCandidate(socketId, candidate)
      [] ev = "ADD_STREAM" -> OnStream(socketId)
      [] ev = "REMOVE_STREAM" -> OnStream(socketId)
      [] OTHER -> UNCHANGED <<pcs, dirty>>

\* The emits of a relay handler that reach Local (a handler sends a socket at
\* most one), and the connection id such an emit carries.
ForLocal(o) == SelectSeq(o, LAMBDA m : Local \in m.to)

TagOf(m) == IF m.socketId # "-" THEN m.socketId ELSE m.user.socketId

\* The socket delivers to the page what the relay emitted to Local, and the
\* page's listener for it runs up to its first await. The relay hands the
\* offer, answer or candidate on untouched; target names the connection its
\* sender made it for.
Receive(o, target) ==
    /\ IF ForLocal(o) = <<>>
       THEN /\ rx' = NoEvent
            /\ UNCHANGED <<pcs, dirty>>
       ELSE /\ rx' = [ev |-> ForLocal(o)[1].ev, socketId |-> TagOf(ForLocal(o)[1]),
                      target |-> target]
            /\ Dispatch(ForLocal(o)[1].ev, TagOf(ForLocal(o)[1]), target)
            /\ BagCardinality(pcs') <= MaxPcs
    /\ UNCHANGED <<stream, iceListening, pendingMedia>>
    /\ UNCHANGED mvars

\* A listener suspended at its first await goes on. The JOIN_REQUEST listener
\* has its offer and calls setLocalDescription(offer). The SIGNAL_OFFER
\* listener calls createAnswer, which leaves the object as it is, and then
\* setLocalDescription(answer). A call that rejects ends the listener (nothing
\* catches the rejection).
Resume(pc) ==
    /\ pc.at \in {"createOffer", "setRemoteDescription"}
    /\ \E ok \in BOOLEAN :
          pcs' = Live(Replace(pcs, pc,
                    IF pc.at = "createOffer"
                    THEN IF ok /\ CanSetLocalDescription(pc, "offer")
                         THEN [setLocalDescription(pc, "offer")
                                  EXCEPT !.at = "setLocalDescription"]
                         ELSE [pc EXCEPT !.at = "rejected"]
                    ELSE IF ok /\ CanCreateAnswer(pc) /\ CanSetLocalDescription(pc, "answer")
                         THEN [setLocalDescription(pc, "answer")
                                  EXCEPT !.at = "setLocalDescription"]
                         ELSE [pc EXCEPT !.at = "rejected"]))
    /\ rx' = NoEvent
    /\ UNCHANGED <<stream, iceListening, pendingMedia, dirty>>
    /\ UNCHANGED mvars
    /\ UNCHANGED svars

\* After await pc.setLocalDescription the listener emits its description to
\* the room of the page: SIGNAL_OFFER from the JOIN_REQUEST listener,
\* SIGNAL_ANSWER from the SIGNAL_OFFER listener; the relay handles it.
EmitDescription(pc) ==
    /\ pc.at = "setLocalDescription"
    /\ pcs' = Live(Replace(pcs, pc, [pc EXCEPT !.at = "done"]))
    /\ IF pc.handler = "JOIN_REQUEST" THEN SignalOffer(Local, PageRoom)
       ELSE SignalAnswer(Local, PageRoom)
    /\ rx' = NoEvent
    /\ UNCHANGED <<stream, iceListening, pendingMedia, dirty>>
    /\ UNCHANGED mvars

\* pc.onicecandidate: once a local description is set the object gathers
\* candidates and the page emits each to the room of the page.
OnIceCandidate(pc) ==
    /\ pc.local # "none"
    /\ SignalIceCandidate(Local, PageRoom)
    /\ rx' = NoEvent
    /\ UNCHANGED <<pcs, stream, iceListening, pendingMedia, dirty>>
    /\ UNCHANGED mvars

\* The effects that depend on peerConnections run again after a render: the
\* cleanup takes the candidate listener off and getMediaStream is called anew;
\* the description listeners are put back at once.
RunEffects ==
    /\ dirty
    /\ pendingMedia < MaxPending
    /\ dirty' = FALSE
    /\ iceListening' = FALSE
    /\ pendingMedia' = pendingMedia + 1
    /\ rx' = NoEvent
    /\ UNCHANGED <<pcs, stream>>
    /\ UNCHANGED mvars
    /\ UNCHANGED svars

\* getUserMedia resolves: setStream with a new stream, whose video and audio
\* track start enabled, then the candidate listener is registered.
MediaResolved ==
    /\ pendingMedia > 0
    /\ pendingMedia' = pendingMedia - 1
    /\ stream' = TRUE
    /\ videoEnabled' = TRUE
    /\ audioEnabled' = TRUE
    /\ UNCHANGED <<isVideoOn, isMicOn>>
    /\ iceListening' = TRUE
    /\ rx' = NoEvent
    /\ UNCHANGED <<pcs, dirty>>
    /\ UNCHANGED svars

\* getUserMedia rejects: the catch logs it and nothing is registered.
MediaRejected ==
    /\ pendingMedia > 0
    /\ pendingMedia' = pendingMedia - 1
    /\ rx' = NoEvent
    /\ UNCHANGED <<pcs, stream, iceListening, dirty>>
    /\ UNCHANGED mvars
    /\ UNCHANGED svars

\* A click on an icon of the page, as the event handled in a step.
Click(handler) == [NoEvent EXCEPT !.ev = handler]

\* toggleVideo with the flag negated instead of read back from the track.
toggleVideoNegatesFlag ==
    /\ rx' = Click("toggleVideo")
    /\ IF stream
       THEN /\ videoEnabled' = ~videoEnabled
            /\ isVideoOn' = ~isVideoOn
       ELSE UNCHANGED <<videoEnabled, isVideoOn>>
    /\ UNCHANGED <<audioEnabled, isMicOn>>
    /\ UNCHANGED <<pcs, stream, iceListening, pendingMedia, dirty>>
    /\ UNCHANGED svars

\* The camera icon is clicked. A stream of getUserMedia({video: true, audio:
\* true}) has a video and an audio track, so the inner test passes whenever
\* the stream state is set.
toggleVideo ==
    /\ rx' = Click("toggleVideo")
    /\ IF stream
       THEN /\ videoEnabled' = ~videoEnabled
            /\ isVideoOn' = videoEnabled'
       ELSE UNCHANGED <<videoEnabled, isVideoOn>>
    /\ UNCHANGED <<audioEnabled, isMicOn>>
    /\ UNCHANGED <<pcs, stream, iceListening, pendingMedia, dirty>>
    /\ UNCHANGED svars

\* The microphone icon is clicked.
toggleMic ==
    /\ rx' = Click("toggleMic")
    /\ IF stream
       THEN /\ audioEnabled' = ~audioEnabled
            /\ isMicOn' = audioEnabled'
       ELSE UNCHANGED <<audioEnabled, isMicOn>>
    /\ UNCHANGED <<videoEnabled, isVideoOn>>
    /\ UNCHANGED <<pcs, stream, iceListening, pendingMedia, dirty>>
    /\ UNCHANGED svars

\* The page emits JOIN_REQUEST once; the relay's emits reach Local's page.
PeerJoin(socket) ==
    /\ socket = Local => joined[Local] = {}
    /\ JoinRequest(socket, PageRoom, NameOf(socket))
    /\ Receive(out', "-")

\* A connection closes. Local's page goes with its connection (a later
\* connection of Local starts from a new page).
PeerDisconnect(socket) ==
    /\ Disconnecting(socket)
    /\ IF socket = Local
       THEN /\ pcs' = EmptyBag
            /\ stream' = FALSE
            /\ iceListening' = FALSE
            /\ pendingMedia' = 1
            /\ dirty' = FALSE
            /\ rx' = NoEvent
            /\ videoEnabled' = FALSE
            /\ audioEnabled' = FALSE
            /\ isVideoOn' = TRUE
            /\ isMicOn' = TRUE
       ELSE Receive(out', "-")

\* Another connection sends a description or a candidate it made for target.
PeerOffer(socket, target) == SignalOffer(socket, PageRoom) /\ Receive(out', target)

PeerAnswer(socket, target) == SignalAnswer(socket, PageRoom) /\ Receive(out', target)

PeerIceCandidate(socket, target) ==
    SignalIceCandidate(socket, PageRoom) /\ Receive(out', target)

\* Every handler; two connections, one room, two usernames; the status events
\* may name any connection id.
Next ==
    \/ \E socket \in Pair, roomId \in OneRoom, username \in TwoNames :
          JoinRequest(socket, roomId, username) /\ UNCHANGED cvars
    \/ \E socket \in Pair : Disconnecting(socket) /\ UNCHANGED cvars
    \/ \E socket \in Pair, roomId \in RoomIds : SignalIceCandidate(socket, roomId) /\ UNCHANGED cvars
    \/ \E socket \in Pair, roomId \in RoomIds : SignalOffer(socket, roomId) /\ UNCHANGED cvars
    \/ \E socket \in Pair, roomId \in RoomIds : SignalAnswer(socket, roomId) /\ UNCHANGED cvars
    \/ \E socket \in Pair, socketId \in Conns : UserOffline(socket, socketId) /\ UNCHANGED cvars
    \/ \E socket \in Pair, socketId \in Conns : UserOnline(socket, socketId) /\ UNCHANGED cvars
    \/ \E socket \in Pair : SendMessage(socket) /\ UNCHANGED cvars
    \/ \E socket \in Pair, cursorPosition \in 0..MaxCursor :
          TypingStart(socket, cursorPosition) /\ UNCHANGED cvars
    \/ \E socket \in Pair : TypingPause(socket) /\ UNCHANGED cvars
    \/ \E socket \in Pair : RequestDrawing(socket) /\ UNCHANGED cvars
    \/ \E socket \in Pair, socketId \in Pair : SyncDrawing(socket, socketId) /\ UNCHANGED cvars

Spec == Init /\ [][Next]_vars

\* Membership and presence; two connections, two rooms, two usernames.
NextRooms ==
    \/ \E socket \in Pair, roomId \in RoomIds, username \in TwoNames :
          JoinRequest(socket, roomId, username) /\ UNCHANGED cvars
    \/ \E socket \in Pair : Disconnecting(socket) /\ UNCHANGED cvars
    \/ \E socket \in Pair, socketId \in Pair : UserOffline(socket, socketId) /\ UNCHANGED cvars
    \/ \E socket \in Pair, socketId \in Pair : UserOnline(socket, socketId) /\ UNCHANGED cvars

SpecRooms == Init /\ [][NextRooms]_vars

\* Membership and signaling; three connections, one room, three usernames.
NextMesh ==
    \/ \E socket \in Conns, roomId \in OneRoom, username \in Usernames :
          JoinRequest(socket, roomId, username) /\ UNCHANGED cvars
    \/ \E socket \in Conns : Disconnecting(socket) /\ UNCHANGED cvars
    \/ \E socket \in Conns, roomId \in OneRoom : SignalIceCandidate(socket, roomId) /\ UNCHANGED cvars
    \/ \E socket \in Conns, roomId \in OneRoom : SignalOffer(socket, roomId) /\ UNCHANGED cvars
    \/ \E socket \in Conns, roomId \in OneRoom : SignalAnswer(socket, roomId) /\ UNCHANGED cvars

SpecMesh == Init /\ [][NextMesh]_vars

\* The relay with the page of Local; three connections, one room.
NextPeer ==
    \/ \E socket \in Conns : PeerJoin(socket)
    \/ \E socket \in Conns : PeerDisconnect(socket)
    \/ \E socket \in Peers : \E target \in Conns \ {socket} : PeerOffer(socket, target)
    \/ \E socket \in Peers : \E target \in Conns \ {socket} : PeerAnswer(socket, target)
    \/ \E socket \in Peers : \E target \in Conns \ {socket} : PeerIceCandidate(socket, target)
    \/ \E pc \in BagToSet(pcs) : Resume(pc)
    \/ \E pc \in BagToSet(pcs) : EmitDescription(pc)
    \/ \E pc \in BagToSet(pcs) : OnIceCandidate(pc)
    \/ RunEffects
    \/ MediaResolved
    \/ MediaRejected

SpecPeer == Init /\ [][NextPeer]_vars

\* The page with its two icons: connections join PageRoom, the others send
\* offers to Local, Local answers them, and the icons are clicked at any time.
NextMedia ==
    \/ \E socket \in Conns : PeerJoin(socket)
    \/ \E socket \in Peers : PeerOffer(socket, Local)
    \/ \E pc \in BagToSet(pcs) : Resume(pc)
    \/ \E pc \in BagToSet(pcs) : EmitDescription(pc)
    \/ RunEffects
    \/ MediaResolved
    \/ MediaRejected
    \/ toggleVideo
    \/ toggleMic

SpecMedia == Init /\ [][NextMedia]_vars

\* ------------------------------------------------------------ properties
\* Indices of the registry, and what a handler's emit calls delivered.
Idx == 1..Len(userSocketMap)

\* How many emit calls of the last handler delivered event ev to socket s.
Deliveries(o, ev, s) == Cardinality({i \in 1..Len(o) : o[i].ev = ev /\ s \in o[i].to})

\* The sockets that hold a record in room r.
MembersOf(map, r) == {map[i].socketId : i \in {k \in 1..Len(map) : map[k].roomId = r}}

\* Some record of room r bears username u, whatever its status.
Held(r, u) == \E i \in Idx : userSocketMap[i].roomId = r /\ userSocketMap[i].username = u

\* Some ONLINE record of room r bears username u.
HeldOnline(r, u) ==
    \E i \in Idx : /\ userSocketMap[i].roomId = r
                   /\ userSocketMap[i].username = u
                   /\ userSocketMap[i].status = ONLINE

\* The step handles a JOIN_REQUEST.
JoinStep == inbound'.type = "JOIN_REQUEST"

Rejected(o) == Len(o) = 1 /\ o[1].ev = "USERNAME_EXISTS"

\* C1: no two ONLINE records of the same room bear the same username.
UsernameUnique ==
    \A i, j \in Idx :
        (/\ i # j
         /\ userSocketMap[i].roomId = userSocketMap[j].roomId
         /\ userSocketMap[i].status = ONLINE
         /\ userSocketMap[j].status = ONLINE)
        => userSocketMap[i].username # userSocketMap[j].username

\* C1 witness: a USER_ONLINE event has been handled and a room holds two
\* ONLINE records, of two connections.
UsernameUniqueWitness ==
    /\ inbound.type = "USER_ONLINE"
    /\ \E i, j \in Idx :
          /\ i # j
          /\ userSocketMap[i].roomId = userSocketMap[j].roomId
          /\ userSocketMap[i].status = ONLINE
          /\ userSocketMap[j].status = ONLINE
          /\ userSocketMap[i].socketId # userSocketMap[j].socketId

\* C2: the registry holds at most one record for any connection id.
OneRecordPerConnection ==
    \A i, j \in Idx : i # j => userSocketMap[i].socketId # userSocketMap[j].socketId

\* C3: the roster of a room holds exactly one entry for each connection that
\* was admitted to the room and has not disconnected since (the sockets the
\* transport still has in the room), none for any other, and none twice.
RosterBijection ==
    \A r \in RoomIds :
        /\ MembersOf(userSocketMap, r) = {s \in Conns : r \in joined[s]}
        /\ Len(getUsersInRoom(r)) = Cardinality({s \in Conns : r \in joined[s]})

\* The part of C3 the code keeps: the roster names exactly the admitted
\* connections (possibly more than once).
RosterCoversMembers ==
    \A r \in RoomIds : MembersOf(userSocketMap, r) = {s \in Conns : r \in joined[s]}

\* The case of C4: room R holds two records, of two connections A then B, and
\* a third connection sends a JOIN_REQUEST for R with a free username.
ThirdJoins ==
    /\ JoinStep
    /\ ~Held(inbound'.roomId, inbound'.username)
    /\ Len(getUsersInRoom(inbound'.roomId)) = 2
    /\ Cardinality(MembersOf(userSocketMap, inbound'.roomId) \cup {inbound'.socket}) = 3

\* What C4 says of the notices: one USER_JOINED with the new record to each of
\* A and B and to nobody else, one JOIN_ACCEPTED with it to the newcomer only.
JoinNotices ==
    /\ Len(out') = 2
    /\ \A s \in MembersOf(userSocketMap, inbound'.roomId) :
          Deliveries(out', "USER_JOINED", s) = 1 /\ Deliveries(out', "JOIN_ACCEPTED", s) = 0
    /\ \A s \in Conns \ MembersOf(userSocketMap, inbound'.roomId) :
          Deliveries(out', "USER_JOINED", s) = 0
    /\ \A s \in Conns :
          Deliveries(out', "JOIN_ACCEPTED", s) = IF s = inbound'.socket THEN 1 ELSE 0
    /\ out'[1].ev = "USER_JOINED"
    /\ out'[1].user = newUser(inbound'.socket, inbound'.roomId, inbound'.username)
    /\ out'[2].ev = "JOIN_ACCEPTED"
    /\ out'[2].user = out'[1].user

\* C4 as claimed: the roster sent to the newcomer is the sequence [A, B].
JoinRosterIsOthers ==
    [][ThirdJoins => /\ JoinNotices
                     /\ out'[2].users = getUsersInRoom(inbound'.roomId)]_vars

\* C4 amended: the roster sent to the newcomer is [A, B, c], the room's
\* records in admission order with the newcomer's own record last.
JoinRosterIncludesNewcomer ==
    [][ThirdJoins => /\ JoinNotices
                     /\ out'[2].users =
                           Append(getUsersInRoom(inbound'.roomId), out'[2].user)
                     /\ out'[2].users = getUsersInRoomOf(userSocketMap', inbound'.roomId)]_vars

\* C4 witness: a third connection has just been admitted to a room of two.
JoinRosterWitness ==
    /\ inbound.type = "JOIN_REQUEST"
    /\ Len(out) = 2
    /\ out[2].ev = "JOIN_ACCEPTED"
    /\ Len(out[2].users) = 3
    /\ Cardinality({out[2].users[i].socketId : i \in 1..3}) = 3
    /\ out[1].to = {out[2].users[1].socketId, out[2].users[2].socketId}

\* C5: a JOIN_REQUEST for a username already held in the room yields one
\* USERNAME_EXISTS, to the requester only, no USER_JOINED or JOIN_ACCEPTED,
\* and leaves the registry (and the room membership) as it was.
CollisionRejected ==
    [][(JoinStep /\ Held(inbound'.roomId, inbound'.username))
        => /\ Len(out') = 1
           /\ out'[1].ev = "USERNAME_EXISTS"
           /\ out'[1].to = {inbound'.socket}
           /\ userSocketMap' = userSocketMap
           /\ joined' = joined]_vars

\* C5 witness: a request collided with the name of another connection's record.
CollisionWitness ==
    /\ inbound.type = "JOIN_REQUEST"
    /\ Rejected(out)
    /\ \E i \in Idx : /\ userSocketMap[i].roomId = inbound.roomId
                      /\ userSocketMap[i].username = inbound.username
                      /\ userSocketMap[i].socketId # inbound.socket

\* What admission creates: the registry grows by one ONLINE record with
\* cursorPosition 0, typing false and no current file.
Admitted ==
    /\ ~Rejected(out')
    /\ userSocketMap' =
          Append(userSocketMap,
                 [username |-> inbound'.username, roomId |-> inbound'.roomId,
                  status |-> ONLINE, cursorPosition |-> 0, typing |-> FALSE,
                  socketId |-> inbound'.socket, currentFile |-> "null"])

\* C6 as claimed: a join request is rejected exactly when an ONLINE
\* participant of the room holds the username, and admitted otherwise.
RejectedIffHeldOnline ==
    [][JoinStep => IF HeldOnline(inbound'.roomId, inbound'.username)
                   THEN Rejected(out') /\ userSocketMap' = userSocketMap
                   ELSE Admitted]_vars

\* C6 amended: a join request is rejected exactly when a participant of the
\* room, ONLINE or OFFLINE, holds the username, and admitted otherwise.
RejectedIffHeld ==
    [][JoinStep => IF Held(inbound'.roomId, inbound'.username)
                   THEN Rejected(out') /\ userSocketMap' = userSocketMap
                   ELSE Admitted]_vars

\* C6 witness: a request was rejected though the only holder of the username
\* in the room is OFFLINE, while the same username is held in the other room.
RejectedByOfflineWitness ==
    /\ inbound.type = "JOIN_REQUEST"
    /\ Rejected(out)
    /\ Held(inbound.roomId, inbound.username)
    /\ ~HeldOnline(inbound.roomId, inbound.username)
    /\ \E r \in RoomIds \ {inbound.roomId} : Held(r, inbound.username)

\* The step handles the disconnect of a connection that has a record.
DepartureStep ==
    /\ inbound'.type = "disconnecting"
    /\ \E i \in Idx : userSocketMap[i].socketId = inbound'.socket

\* C7: on the disconnect of a connection with a record, every other member of
\* a room it is in gets one USER_DISCONNECTED carrying a record it still had
\* in the registry, and afterwards no record of the connection remains; the
\* disconnect of a connection without a record emits and changes nothing.
DepartureNotified ==
    [][/\ DepartureStep =>
            /\ \A r \in RoomIds :
                  inbound'.socket \in MembersOf(userSocketMap, r) =>
                     \A s \in MembersOf(userSocketMap, r) \ {inbound'.socket} :
                        Deliveries(out', "USER_DISCONNECTED", s) = 1
            /\ \A i \in 1..Len(out') :
                  /\ out'[i].ev = "USER_DISCONNECTED"
                  /\ \E k \in Idx : userSocketMap[k] = out'[i].user
                  /\ out'[i].user.socketId = inbound'.socket
            /\ \A k \in 1..Len(userSocketMap') :
                  userSocketMap'[k].socketId # inbound'.socket
       /\ (/\ inbound'.type = "disconnecting"
           /\ \A i \in Idx : userSocketMap[i].socketId # inbound'.socket)
          => out' = <<>> /\ userSocketMap' = userSocketMap]_vars

\* The events the relay sends with socket.broadcast.to(room).
RoomBroadcasts ==
    {"USER_JOINED", "USER_DISCONNECTED", "SIGNAL_OFFER", "SIGNAL_ANSWER",
     "SIGNAL_ICE_CANDIDATE", "USER_ONLINE", "USER_OFFLINE", "TYPING_START",
     "TYPING_PAUSE", "RECEIVE_MESSAGE", "REQUEST_DRAWING"}

\* C8: the connection whose event a handler serves is never among the
\* recipients of a room broadcast the handler emits.
NoSelfEcho ==
    \A i \in 1..Len(out) : out[i].ev \in RoomBroadcasts => inbound.socket \notin out[i].to

\* C8 witness: a member of a room caused a broadcast to that room, which
\* reached another member.
NoSelfEchoWitness ==
    /\ Len(out) = 1
    /\ out[1].ev = "TYPING_START"
    /\ out[1].to # {}
    /\ inbound.socket \in MembersOf(userSocketMap, out[1].user.roomId)

\* C9: the SIGNAL_ANSWER of a member of a room is delivered to one connection
\* only (the sender of the offer it replies to), tagged with the answerer's
\* connection id.
AnswerUnicast ==
    (/\ inbound.type = "SIGNAL_ANSWER"
     /\ inbound.socket \in MembersOf(userSocketMap, inbound.roomId))
    => \A i \in 1..Len(out) :
          Cardinality(out[i].to) <= 1 /\ out[i].socketId = inbound.socket

\* C10: a SIGNAL_OFFER of a sender with a record goes once to every other
\* member of roomId and to nobody else, tagged with the sender's id; one of
\* a sender without a record goes to nobody.
OfferRelay ==
    inbound.type = "SIGNAL_OFFER" =>
        IF \E k \in Idx : userSocketMap[k].socketId = inbound.socket
        THEN /\ \A s \in Conns :
                   Deliveries(out, "SIGNAL_OFFER", s) =
                      IF s \in MembersOf(userSocketMap, inbound.roomId) \ {inbound.socket}
                      THEN 1 ELSE 0
             /\ \A i \in 1..Len(out) : out[i].socketId = inbound.socket
        ELSE \A i \in 1..Len(out) : out[i].to = {}

\* The connection has a record in the registry.
HasRecord(map, s) == \E i \in 1..Len(map) : map[i].socketId = s

\* C11: once every connection that joined a room has disconnected, the room's
\* roster is empty and the registry holds no record of any of them. A
\* connection is out (joined[s] = {}) from its disconnect until it joins again.
NoLeak ==
    /\ \A s \in Conns : joined[s] = {} => ~HasRecord(userSocketMap, s)
    /\ \A r \in RoomIds :
          (\A s \in Conns : r \notin joined[s]) => Len(getUsersInRoom(r)) = 0

\* C11 witness: the last member of a room, which had a record, has just
\* disconnected; every connection is out and the registry is empty.
NoLeakWitness ==
    /\ inbound.type = "disconnecting"
    /\ Len(out) = 1
    /\ out[1].ev = "USER_DISCONNECTED"
    /\ out[1].user.socketId = inbound.socket
    /\ \A s \in Conns : joined[s] = {}
    /\ userSocketMap = <<>>

\* The events whose handler looks up the record of the sending connection,
\* and those that look up the record of the connection named in the payload.
SenderEvents ==
    {"TYPING_START", "TYPING_PAUSE", "SEND_MESSAGE", "REQUEST_DRAWING", "disconnecting"}

TargetEvents == {"USER_ONLINE", "USER_OFFLINE"}

\* The step serves an event that refers to a connection without a record.
UnknownConnectionStep ==
    \/ inbound'.type \in SenderEvents /\ ~HasRecord(userSocketMap, inbound'.socket)
    \/ inbound'.type \in TargetEvents /\ ~HasRecord(userSocketMap, inbound'.socketId)

\* C14: an event that depends on the registry and refers to a connection with
\* no record leaves the registry as it was and makes the handler emit nothing.
UnknownIgnored ==
    [][UnknownConnectionStep => userSocketMap' = userSocketMap /\ out' = <<>>]_vars

\* C14 witness: a member of a room sent USER_OFFLINE naming a connection with
\* no record while another member was there to hear a broadcast; nothing was
\* emitted.
UnknownIgnoredWitness ==
    /\ inbound.type = "USER_OFFLINE"
    /\ ~HasRecord(userSocketMap, inbound.socketId)
    /\ HasRecord(userSocketMap, inbound.socket)
    /\ BroadcastTo(inbound.socket, getRoomId(inbound.socket), joined) # {}
    /\ out = <<>>

\* ----------------------------------------------- properties of the page
\* The objects of the page, and the event delivered to it in a step.
Objects == BagToSet(pcs)

Members == MembersOf(userSocketMap, PageRoom)

\* The page holds the candidate: it was applied to the object that
\* peerConnections maps its sender's id to (the page keeps candidates nowhere
\* else).
Holds(objs, socketId, candidate) ==
    \E pc \in BagToSet(objs) :
        pc.inMap /\ pc.socketId = socketId /\ candidate \in pc.cands

\* C12: a candidate that member Y gathered for Local and that is delivered to
\* Local's page while its candidate listener is registered is never dropped:
\* whenever it arrives (before there is an object for Y, before Y's
\* description is applied, or after), the page holds it from then on, and it
\* is applied only to an object with a remote description.
CandidateNeverDropped ==
    [][(/\ rx'.ev = "SIGNAL_ICE_CANDIDATE"
        /\ rx'.target = Local
        /\ rx'.socketId \in Members
        /\ iceListening)
          => /\ Holds(pcs', rx'.socketId, Local)
             /\ \A pc \in BagToSet(pcs') : pc.cands # {} => pc.remote # "none"]_vars

\* peerConnections, as a bag of objects, has an entry under the key.
Entry(objs, socketId) ==
    \E pc \in BagToSet(objs) : pc.inMap /\ pc.socketId = socketId

\* C13: when connection X leaves while the page holds a link for X whose
\* negotiation is under way or done, then once the page has processed the
\* departure notice peerConnections has no entry for X.
TeardownComplete ==
    [][(/\ rx'.ev = "USER_DISCONNECTED"
        /\ \E pc \in Objects :
              pc.inMap /\ pc.socketId = rx'.socketId /\ pc.at # "rejected")
          => ~Entry(pcs', rx'.socketId)]_vars

\* Nothing of the page is in flight: no listener suspended, no effect to run,
\* no getUserMedia pending.
PageQuiet ==
    /\ ~dirty
    /\ pendingMedia = 0
    /\ \A pc \in Objects : pc.at \in {"done", "rejected"}

\* C15: when the page of a member has processed the join broadcast for a
\* newcomer and has nothing left in flight, it has created an object for the
\* newcomer, set its local offer and emitted SIGNAL_OFFER.
InitiatesOnJoin ==
    (rx.ev = "USER_JOINED" /\ PageQuiet)
    => \E pc \in Objects :
          /\ pc.socketId = rx.socketId
          /\ pc.handler = "JOIN_REQUEST"
          /\ pc.local = "offer"
          /\ pc.at = "done"

\* The link of the key is OFFERING: the page's own offer is set as the local
\* description and no answer has been applied yet.
Offering(socketId) ==
    /\ Has(socketId)
    /\ Get(socketId).local = "offer"
    /\ Get(socketId).signalingState = "have-local-offer"

Answering(socketId) == Has(socketId) /\ Get(socketId).remote = "offer"

\* C17: a SIGNAL_OFFER that member P made for Local, delivered while the page
\* holds a link for P that is answering or connected, leaves every object as
\* it is: the object for P is not replaced and no second answer is started.
DuplicateOfferDiscarded ==
    [][(/\ rx'.ev = "SIGNAL_OFFER"
        /\ rx'.target = Local
        /\ rx'.socketId \in Members
        /\ Answering(rx'.socketId)) => pcs' = pcs]_vars

\* C18: an offer that member A made for another member C and that the relay
\* also delivered to Local makes Local's page create no object, change no
\* object and start no answer.
OnlyNewcomerActs ==
    [][(/\ rx'.ev = "SIGNAL_OFFER"
        /\ rx'.socketId \in Members
        /\ rx'.target \in Members \ {Local}) => pcs' = pcs]_vars

\* C19: an answer or a candidate that member A produced for its link to
\* member C changes no object of a third member's page.
PairIndependence ==
    [][(/\ rx'.ev \in {"SIGNAL_ANSWER", "SIGNAL_ICE_CANDIDATE"}
        /\ rx'.socketId \in Members
        /\ rx'.target \in Members \ {Local}) => pcs' = pcs]_vars

\* C20: an object whose negotiation was rejected is not left in
\* peerConnections, and no answer is emitted for it.
FailureIsLocal ==
    \A pc \in Objects : pc.at = "rejected" => ~pc.inMap

\* The JOIN_REQUEST listener of the page never runs: the relay emits no
\* JOIN_REQUEST, so no object is ever created to offer.
NeverOffers == \A pc \in Objects : pc.handler # "JOIN_REQUEST"

\* ------------------------------------------- isolation and ownership
\* The registry a handler's recipients are judged by: the one it found for a
\* disconnect (the record is removed after the notice), else the one it left.
RegistryAt == IF inbound'.type = "disconnecting" THEN userSocketMap ELSE userSocketMap'

\* Connections s and t have records in one and the same room of map.
SameRoom(map, s, t) ==
    \E r \in RoomIds : s \in MembersOf(map, r) /\ t \in MembersOf(map, r)

\* C22: whatever a handler emits for an event of connection C reaches, besides
\* C itself, only connections that have a record in a room C has a record in;
\* a connection without a record, or a member of another room, gets nothing
\* delivered into a room it is not a member of.
RoomIsolation ==
    [][\A i \in 1..Len(out') :
          \A s \in out'[i].to \ {inbound'.socket} :
             SameRoom(RegistryAt, inbound'.socket, s)]_vars

\* C23: an event of connection C other than admission and disconnect keeps the
\* registry's length and order, changes no record's roomId, username or
\* socketId, and changes status, typing or cursorPosition only of records
\* whose socketId is C.
RecordOwnership ==
    [][inbound'.type \notin {"JOIN_REQUEST", "disconnecting"}
          => /\ Len(userSocketMap') = Len(userSocketMap)
             /\ \A i \in Idx :
                   /\ userSocketMap'[i].roomId = userSocketMap[i].roomId
                   /\ userSocketMap'[i].username = userSocketMap[i].username
                   /\ userSocketMap'[i].socketId = userSocketMap[i].socketId
                   /\ userSocketMap'[i] # userSocketMap[i]
                         => userSocketMap[i].socketId = inbound'.socket]_vars

\* ---------------------------------------------------------- local media
\* C21: a click on the camera (microphone) icon negates enabled of the first
\* video (audio) track of the stream state and sets isVideoOn (isMicOn) to the
\* new value; it leaves the other track and flag, peerConnections with every
\* object's negotiation state, the stream state and the relay untouched, so no
\* event is emitted; with no stream it changes nothing.
ToggleFrame ==
    [][/\ rx'.ev = "toggleVideo"
          => /\ UNCHANGED <<pcs, stream, iceListening, pendingMedia, dirty>>
             /\ UNCHANGED svars
             /\ UNCHANGED <<audioEnabled, isMicOn>>
             /\ stream => videoEnabled' = ~videoEnabled /\ isVideoOn' = videoEnabled'
             /\ ~stream => UNCHANGED <<videoEnabled, isVideoOn>>
       /\ rx'.ev = "toggleMic"
          => /\ UNCHANGED <<pcs, stream, iceListening, pendingMedia, dirty>>
             /\ UNCHANGED svars
             /\ UNCHANGED <<videoEnabled, isVideoOn>>
             /\ stream => audioEnabled' = ~audioEnabled /\ isMicOn' = audioEnabled'
             /\ ~stream => UNCHANGED <<audioEnabled, isMicOn>>]_vars

\* The camera was switched off by a click while an offer of a member is being
\* answered: the flag shows the track's value and the object is still there.
ToggleFrameWitness ==
    /\ rx.ev = "toggleVideo"
    /\ stream
    /\ ~videoEnabled
    /\ ~isVideoOn
    /\ isMicOn
    /\ \E pc \in BagToSet(pcs) :
          pc.inMap /\ pc.socketId \in Members /\ pc.signalingState = "have-remote-offer"

====
